---- MODULE Spec2Model ----
(***************************************************************************)
(* Directional fetch analyzer (src/app.py).                                *)
(*                                                                         *)
(* The script is re-executed from top to bottom on every widget event.     *)
(* When the Run button was pressed it scans the bearings 0, s, 2s, ...     *)
(* below 360, walks each ray kilometre by kilometre until a point lies     *)
(* within the tolerance of the coastline, records one row per bearing,     *)
(* then renders the plot, the fetch table and the per-sector effective     *)
(* fetch table.                                                            *)
(*                                                                         *)
(* Units: bearings handed to bearing_to_sector are in tenths of a degree   *)
(* (so 337.5 is 3375); fetch values are in 1/KmUnit km; cos^2 weights are  *)
(* in 1/1000.                                                              *)
(***************************************************************************)
EXTENDS Integers, Sequences, FiniteSets, TLC

VARIABLES
    bearing_step,    \* sidebar slider "Bearing step (degrees)"
    max_km,          \* sidebar slider "Max search distance (km)"
    coastline,       \* the loaded coastline, seen through coastline.distance
    geo_seed,        \* selects the rounding of the geodesic inverse problem
    lat_ok,          \* whether the latitude entered is within [-90, 90]
    pc,              \* position of the script
    bearings,        \* np.arange(0, 360, bearing_step)
    bi,              \* index in bearings of the bearing being cast
    d,               \* distance counter of the hit search
    hit,             \* the local `hit` of the bearing being cast
    tested,          \* distances tested so far for the bearing being cast
    rows,            \* the list `rows` / df_fetch
    trimmed_lines,   \* dict bearing -> LineString (sequence of points)
    hits,            \* per row: the value of `hit` when the row was appended
    probes,          \* per row: the distances tested for that bearing
    df_eff,          \* the effective fetch table
    shown,           \* results exposed to the page so far
    prev,            \* the last completed run (its max_km, fetches and hits)
    probe            \* a bearing handed to bearing_to_sector and its answer

vars == <<bearing_step, max_km, coastline, geo_seed, lat_ok, pc, bearings, bi,
          d, hit, tested, rows, trimmed_lines, hits, probes, df_eff, shown,
          prev, probe>>

(***************************************************************************)
(* Bounds of the model.                                                    *)
(***************************************************************************)
\* Largest search distance of the model, in km (the slider's values, 100 to
\* 2000, are scaled down: the search only needs a positive integer).
MaxKm == 3
\* Smallest bearing step of the model (the slider goes down to 1).
StepMin == 13
\* Fixed-point resolution of a fetch value: units per kilometre.
KmUnit == 4
\* The coast detection tolerance, in units of coastline.distance.
buffer_distance == 1
\* Longest record sequence handed to the aggregation on its own.
MaxRecs == 4

\* Largest bearing step of the slider.
StepMax == 15

NoHit == <<>>
NoPrev == <<>>
Origin == <<0, 0>>

(***************************************************************************)
(* Direction helpers.                                                      *)
(***************************************************************************)
\* Variant: 337.5 itself falls out of N.
bearing_to_sector_gt(b) ==
    IF b > 3375 \/ b < 225 THEN "N"
    ELSE IF b < 675 THEN "NE"
    ELSE IF b < 1125 THEN "E"
    ELSE IF b < 1575 THEN "SE"
    ELSE IF b < 2025 THEN "S"
    ELSE IF b < 2475 THEN "SW"
    ELSE IF b < 2925 THEN "W"
    ELSE "NW"

\* b is in tenths of a degree.
bearing_to_sector(b) ==
    IF b >= 3375 \/ b < 225 THEN "N"
    ELSE IF b < 675 THEN "NE"
    ELSE IF b < 1125 THEN "E"
    ELSE IF b < 1575 THEN "SE"
    ELSE IF b < 2025 THEN "S"
    ELSE IF b < 2475 THEN "SW"
    ELSE IF b < 2925 THEN "W"
    ELSE "NW"

\* Variant: E and NE change places.
dir_order_swapped == <<"N", "E", "NE", "SE", "S", "SW", "W", "NW">>

dir_order == <<"N", "NE", "E", "SE", "S", "SW", "W", "NW">>

(***************************************************************************)
(* The geodesic and the coastline, as the script sees them.                *)
(***************************************************************************)
\* geodesic(kilometers=k).destination((lat, lon), b): the point k km from the
\* origin along bearing b. Zero kilometres is the origin on every bearing;
\* the other points are told apart by bearing and distance.
Dest(b, k) == IF k = 0 THEN Origin ELSE <<b, k>>

\* The rounding of the direct problem followed by the inverse problem: a
\* fixed function of the point, one unit of the fixed-point resolution at
\* most, selected by geo_seed. Every point takes each of -1, 0, 1 under some
\* seed.
Rounding(pt) == ((geo_seed + pt[2]) % 3) - 1

\* geodesic((lat, lon), (pt.y, pt.x)).kilometers, in 1/KmUnit km.
GeoDist(pt) == pt[2] * KmUnit + Rounding(pt)

\* coastline.distance(pt): the coast crosses the rays of the bearings
\* lo..hi-1 at the planar distance dist[k] from their k-th point, lies one
\* kilometre farther out on the rays of the bearings from hi on, and is
\* farther than the tolerance from every point of the rays below lo.
Distance(pt) ==
    IF pt[1] >= coastline.lo /\ pt[1] < coastline.hi
    THEN coastline.dist[pt[2]]
    ELSE IF pt[1] >= coastline.hi /\ pt[2] > 1
    THEN coastline.dist[pt[2] - 1]
    ELSE buffer_distance + 1

\* Variant: a point exactly at the tolerance is not a hit.
Within_lt(pt) == Distance(pt) < buffer_distance

\* coastline.distance(pt) <= buffer_distance
Within(pt) == Distance(pt) <= buffer_distance

\* Variant: the loop has no `break`.
Breaks_never(pt) == FALSE

\* `break` is taken as soon as a point is within the tolerance.
Breaks(pt) == Within(pt)

\* Variant: the stop value is included.
Arange_incl(start, stop, step) ==
    [k \in 1..((stop - start) \div step + 1) |-> start + (k - 1) * step]

\* np.arange(start, stop, step) for a positive integer step.
RECURSIVE Arange(_, _, _)
Arange(start, stop, step) ==
    IF start >= stop THEN <<>>
    ELSE <<start>> \o Arange(start + step, stop, step)

\* Variant: the ray starts at 1 km.
Path_from1(b, m) == [k \in 1..m |-> Dest(b, k)]

\* The no-hit ray: the points for 0, 1, ..., m km.
Path(b, m) == [k \in 1..(m + 1) |-> Dest(b, k - 1)]

\* The LineString of a bearing: origin to hit, or the whole ray.
line(b, h, m) == IF h # NoHit THEN <<Origin, h>> ELSE Path(b, m)

\* Variant: a ray that finds nothing gets the fetch 0.
fetch_km_zero(h, m) == IF h # NoHit THEN GeoDist(h) ELSE 0

\* The fetch of a bearing: the geodesic distance to the hit, or max_km.
fetch_km(h, m) == IF h # NoHit THEN GeoDist(h) ELSE m * KmUnit

Row(b, h, m) ==
    [Bearing |-> b, Direction |-> bearing_to_sector(10 * b), Fetch |-> fetch_km(h, m)]

(***************************************************************************)
(* Effective fetch.                                                        *)
(***************************************************************************)
Abs(x) == IF x < 0 THEN -x ELSE x

\* x / n rounded to the nearest integer (n > 0).
RoundDiv(x, n) == (2 * x + n) \div (2 * n)

\* 1000 * cos^2 of 0, 1, ..., 90 degrees.
Cos2Table ==
    <<1000, 1000, 999, 997, 995, 992, 989, 985, 981, 976, 970, 964, 957,
      949, 941, 933, 924, 915, 905, 894, 883, 872, 860, 847, 835, 821, 808,
      794, 780, 765, 750, 735, 719, 703, 687, 671, 655, 638, 621, 604, 587,
      570, 552, 535, 517, 500, 483, 465, 448, 430, 413, 396, 379, 362, 345,
      329, 313, 297, 281, 265, 250, 235, 220, 206, 192, 179, 165, 153, 140,
      128, 117, 106, 95, 85, 76, 67, 59, 51, 43, 36, 30, 24, 19, 15, 11, 8,
      5, 3, 1, 0, 0>>

\* np.cos(np.deg2rad(t)) ** 2 for a whole number of degrees t, in 1/1000.
Cos2(t) ==
    LET a == Abs(t) % 180
        f == IF a > 90 THEN 180 - a ELSE a
    IN  Cos2Table[f + 1]

\* Variant: the rows are not filtered by direction.
SectorRows_all(rs, sector) == rs

\* df_fetch[df_fetch["Direction"] == sector]
SectorRows(rs, sector) == SelectSeq(rs, LAMBDA r : r.Direction = sector)

RECURSIVE SumBearing(_)
SumBearing(sub) ==
    IF sub = <<>> THEN 0 ELSE Head(sub).Bearing + SumBearing(Tail(sub))

\* sub["Bearing (deg)"].mean(): the plain arithmetic mean, as the fraction
\* num / den.
MeanBearing(sub) == [num |-> SumBearing(sub), den |-> Len(sub)]

\* The offset of bearing b from the mean of sub, as the fraction num / den.
Offset(b, sub) ==
    [num |-> Len(sub) * b - SumBearing(sub), den |-> Len(sub)]

\* cos^2 of the offset of b from the mean of sub; the offset is taken to the
\* nearest degree.
Weight(b, sub) ==
    LET o == Offset(b, sub) IN Cos2(RoundDiv(o.num, o.den))

RECURSIVE SumFW(_, _)
SumFW(rest, sub) ==
    IF rest = <<>> THEN 0
    ELSE Head(rest).Fetch * Weight(Head(rest).Bearing, sub)
         + SumFW(Tail(rest), sub)

RECURSIVE SumW(_, _)
SumW(rest, sub) ==
    IF rest = <<>> THEN 0
    ELSE Weight(Head(rest).Bearing, sub) + SumW(Tail(rest), sub)

\* np.sum(sub["Fetch (km)"] * w) / np.sum(w), as the fraction num / den.
Eff(sub) == [num |-> SumFW(sub, sub), den |-> SumW(sub, sub)]

RECURSIVE EffRows(_, _, _)
EffRows(rs, order, i) ==
    IF i > Len(order) THEN <<>>
    ELSE LET sub == SectorRows(rs, order[i])
         IN  IF sub = <<>> THEN EffRows(rs, order, i + 1)
             ELSE <<[Direction |-> order[i], Eff |-> Eff(sub)]>>
                  \o EffRows(rs, order, i + 1)

\* The loop over dir_order that builds eff_rows / df_eff.
Aggregate(rs) == EffRows(rs, dir_order, 1)

(***************************************************************************)
(* Inputs.                                                                 *)
(***************************************************************************)
Steps == StepMin..StepMax
KmChoices == 1..MaxKm
Arcs == {<<0, 180>>, <<90, 350>>}
DistChoices == {buffer_distance - 1, buffer_distance, buffer_distance + 1}
Coasts ==
    {[lo |-> a[1], hi |-> a[2], dist |-> f] :
        a \in Arcs, f \in [1..MaxKm -> DistChoices]}

NoProbe == [b |-> 0, sector |-> "-"]

Cleared ==
    /\ bearings = <<>>
    /\ bi = 0
    /\ d = 0
    /\ hit = NoHit
    /\ tested = <<>>
    /\ rows = <<>>
    /\ trimmed_lines = <<>>
    /\ hits = <<>>
    /\ probes = <<>>
    /\ df_eff = <<>>
    /\ shown = <<>>

\* The page before the Run button is pressed: the widgets hold their values
\* and the coastline is loaded.
Init ==
    /\ bearing_step \in Steps
    /\ max_km \in KmChoices
    /\ coastline \in Coasts
    /\ geo_seed \in 0..2
    /\ lat_ok \in BOOLEAN
    /\ pc = "idle"
    /\ Cleared
    /\ prev = NoPrev
    /\ probe = NoProbe

(***************************************************************************)
(* The script, one action per step.                                        *)
(***************************************************************************)
inputs == <<bearing_step, max_km, coastline, geo_seed, lat_ok>>

\* `if run:` and the set-up of the scan. A rerun starts from an empty page.
ClickRun ==
    /\ pc \in {"idle", "done", "failed"}
    /\ bearings' = Arange(0, 360, bearing_step)
    /\ bi' = 1
    /\ d' = 0
    /\ hit' = NoHit
    /\ tested' = <<>>
    /\ rows' = <<>>
    /\ trimmed_lines' = <<>>
    /\ hits' = <<>>
    /\ probes' = <<>>
    /\ df_eff' = <<>>
    /\ shown' = <<>>
    /\ pc' = "scan"
    /\ UNCHANGED <<inputs, prev, probe>>

\* One iteration of `for d in range(1, max_km + 1)`: the destination point
\* is computed and tested, and the loop breaks on the first hit.
TestPoint ==
    /\ pc = "scan"
    /\ lat_ok
    /\ d < max_km
    /\ LET pt == Dest(bearings[bi], d + 1)
       IN  /\ d' = d + 1
           /\ tested' = Append(tested, d + 1)
           /\ hit' = IF Within(pt) THEN pt ELSE hit
           /\ pc' = IF Breaks(pt) \/ d + 1 = max_km THEN "ray" ELSE "scan"
    /\ UNCHANGED <<inputs, bearings, bi, rows, trimmed_lines, hits, probes,
                   df_eff, shown, prev, probe>>

\* A latitude outside [-90, 90] makes the first geodesic call raise: the
\* script ends there and nothing it computed survives.
Raise ==
    /\ pc = "scan"
    /\ ~lat_ok
    /\ pc' = "failed"
    /\ bearings' = <<>>
    /\ bi' = 0
    /\ UNCHANGED <<inputs, d, hit, tested, rows, trimmed_lines, hits, probes,
                   df_eff, shown, prev, probe>>

\* After the search of one bearing: its line, its fetch and its row; then
\* the next bearing, or the end of the scan.
EndRay ==
    /\ pc = "ray"
    /\ LET b == bearings[bi]
       IN  /\ trimmed_lines' = (b :> line(b, hit, max_km)) @@ trimmed_lines
           /\ rows' = Append(rows, Row(b, hit, max_km))
           /\ hits' = Append(hits, hit)
           /\ probes' = Append(probes, tested)
    /\ bi' = bi + 1
    /\ d' = 0
    /\ hit' = NoHit
    /\ tested' = <<>>
    /\ pc' = IF bi = Len(bearings) THEN "plot" ELSE "scan"
    /\ UNCHANGED <<inputs, bearings, df_eff, shown, prev, probe>>

RowBearings(rs) == {rs[i].Bearing : i \in 1..Len(rs)}

\* Variant: the plot is drawn inside the bearing loop.
CanPlot_early == pc \in {"ray", "plot"}

\* The plot is reached once the `with st.spinner` block has ended.
CanPlot == pc = "plot"

\* df_fetch, the figure with one trace per line, st.plotly_chart.
Plot ==
    /\ CanPlot
    /\ shown' = Append(shown, [what |-> "plot", of |-> DOMAIN trimmed_lines])
    /\ pc' = "fetch_table"
    /\ UNCHANGED <<inputs, bearings, bi, d, hit, tested, rows, trimmed_lines,
                   hits, probes, df_eff, prev, probe>>

\* st.dataframe(df_fetch)
FetchTable ==
    /\ pc = "fetch_table"
    /\ shown' = Append(shown, [what |-> "fetch_table", of |-> RowBearings(rows)])
    /\ pc' = "effective"
    /\ UNCHANGED <<inputs, bearings, bi, d, hit, tested, rows, trimmed_lines,
                   hits, probes, df_eff, prev, probe>>

\* The effective fetch per direction and its table; the script ends.
EffectiveFetch ==
    /\ pc = "effective"
    /\ df_eff' = Aggregate(rows)
    /\ shown' = Append(shown, [what |-> "eff_table", of |-> RowBearings(rows)])
    /\ pc' = "done"
    /\ UNCHANGED <<inputs, bearings, bi, d, hit, tested, rows, trimmed_lines,
                   hits, probes, prev, probe>>

Next ==
    \/ ClickRun
    \/ TestPoint
    \/ Raise
    \/ EndRay
    \/ Plot
    \/ FetchTable
    \/ EffectiveFetch

Spec == Init /\ [][Next]_vars

(***************************************************************************)
(* Runs repeated with another search distance.                             *)
(***************************************************************************)
\* The max distance slider is moved to m: the script is re-executed without
\* the Run button pressed, which leaves the page with the hint only. The
\* other widgets keep their values. A run that had completed is remembered
\* in prev.
MoveSlider(m) ==
    /\ pc \in {"idle", "done", "failed"}
    /\ m # max_km
    /\ max_km' = m
    /\ prev' = IF pc = "done"
               THEN [max_km |-> max_km, rows |-> rows, hits |-> hits]
               ELSE prev
    /\ pc' = "idle"
    /\ bearings' = <<>>
    /\ bi' = 0
    /\ d' = 0
    /\ hit' = NoHit
    /\ tested' = <<>>
    /\ rows' = <<>>
    /\ trimmed_lines' = <<>>
    /\ hits' = <<>>
    /\ probes' = <<>>
    /\ df_eff' = <<>>
    /\ shown' = <<>>
    /\ UNCHANGED <<bearing_step, coastline, geo_seed, lat_ok, probe>>

NextRerun ==
    \/ Next
    \/ \E m \in KmChoices : MoveSlider(m)

SpecRerun == Init /\ [][NextRerun]_vars

(***************************************************************************)
(* The effective fetch computation on its own, over any record sequence.   *)
(***************************************************************************)
AggBearings == {0, 10, 45, 90, 180, 270, 350}
AggFetches == {KmUnit, MaxKm * KmUnit}

DistinctBearings(rs) ==
    \A i, j \in 1..Len(rs) : rs[i].Bearing = rs[j].Bearing => i = j

RecordSeqs ==
    UNION {
        {rs \in [1..n -> {[Bearing |-> b,
                           Direction |-> bearing_to_sector(10 * b),
                           Fetch |-> f] : b \in AggBearings, f \in AggFetches}] :
            DistinctBearings(rs)} : n \in 0..MaxRecs}

FixedInputs ==
    /\ bearing_step = StepMax
    /\ max_km = MaxKm
    /\ coastline = [lo |-> 0, hi |-> 0, dist |-> [k \in 1..MaxKm |-> buffer_distance]]
    /\ geo_seed = 0
    /\ lat_ok = TRUE

InitAgg ==
    /\ FixedInputs
    /\ pc = "effective"
    /\ bearings = <<>>
    /\ bi = 0
    /\ d = 0
    /\ hit = NoHit
    /\ tested = <<>>
    /\ rows \in RecordSeqs
    /\ trimmed_lines = <<>>
    /\ hits = <<>>
    /\ probes = <<>>
    /\ df_eff = <<>>
    /\ shown = <<>>
    /\ prev = NoPrev
    /\ probe = NoProbe

SpecAgg == InitAgg /\ [][EffectiveFetch]_vars

(***************************************************************************)
(* bearing_to_sector on its own, over every tenth of a degree.             *)
(***************************************************************************)
InitClassify ==
    /\ FixedInputs
    /\ pc = "idle"
    /\ Cleared
    /\ prev = NoPrev
    /\ probe \in {[b |-> b, sector |-> "-"] : b \in 0..3599}

Classify ==
    /\ probe.sector = "-"
    /\ probe' = [probe EXCEPT !.sector = bearing_to_sector(probe.b)]
    /\ UNCHANGED <<inputs, pc, bearings, bi, d, hit, tested, rows,
                   trimmed_lines, hits, probes, df_eff, shown, prev>>

SpecClassify == InitClassify /\ [][Classify]_vars

(***************************************************************************)
(* Properties.                                                             *)
(***************************************************************************)
Canon == <<"N", "NE", "E", "SE", "S", "SW", "W", "NW">>
CanonIndex(x) == CHOOSE i \in 1..8 : Canon[i] = x

\* The wedge of a bearing in tenths of a degree, from the geometry: the
\* circle turned by 22.5 degrees is cut every 45 degrees.
Wedge(b) == Canon[((b + 225) % 3600) \div 450 + 1]

\* C1: every bearing in [0, 360) gets exactly one of the 8 labels, and the
\* label is the one of the 45 degree wedge holding it, N being
\* [337.5, 360) or [0, 22.5), each wedge closed below and open above.
C1_Partition ==
    probe.sector # "-" =>
        /\ probe.sector \in {Canon[i] : i \in 1..8}
        /\ probe.sector = Wedge(probe.b)

\* A lower edge belongs to its wedge: 337.5 is N.
C1_Witness == probe.b = 3375 /\ probe.sector = "N"

Saturated == max_km * KmUnit

\* C2: every fetch lies in [0, max_km] and a hit point is present exactly
\* when the fetch is below max_km.
C2_Original ==
    \A i \in 1..Len(rows) :
        /\ rows[i].Fetch >= 0
        /\ rows[i].Fetch <= Saturated
        /\ (hits[i] # NoHit) <=> (rows[i].Fetch < Saturated)

\* C2 as amended: every fetch is positive and at most max_km up to the
\* rounding of the geodesic distance; without a hit point the fetch is max_km
\* exactly, so a fetch below max_km comes with a hit point; with a hit point
\* at d km the fetch is d up to rounding, d = max_km included.
C2_Amended ==
    \A i \in 1..Len(rows) :
        /\ rows[i].Fetch > 0
        /\ rows[i].Fetch <= Saturated + 1
        /\ hits[i] = NoHit => rows[i].Fetch = Saturated
        /\ rows[i].Fetch < Saturated => hits[i] # NoHit
        /\ hits[i] # NoHit =>
              \E k \in 1..max_km :
                  /\ hits[i] = <<rows[i].Bearing, k>>
                  /\ Abs(rows[i].Fetch - k * KmUnit) <= 1

\* A hit found at d = max_km whose fetch is not below max_km.
C2_Witness ==
    /\ pc = "done"
    /\ \E i \in 1..Len(rows) :
          /\ hits[i] = <<rows[i].Bearing, max_km>>
          /\ rows[i].Fetch >= Saturated

\* The smallest distance in 1..m whose point on bearing b is within the
\* tolerance of the coastline, or 0 when there is none.
FirstNear(b, m) ==
    LET near == {k \in 1..m : Distance(<<b, k>>) <= buffer_distance}
    IN  IF near = {} THEN 0
        ELSE CHOOSE k \in near : \A j \in near : k <= j

\* C3: the search of a bearing tests 1, 2, ... km in increasing order, never
\* the origin, and stops at the first distance whose point is within the
\* tolerance (distance <= tolerance): the hit is the point at the smallest
\* such distance, nothing beyond it is tested, and the fetch is the geodesic
\* distance from the origin to that point.
C3_FirstHit ==
    /\ \A k \in 1..Len(tested) : tested[k] = k
    /\ hit # NoHit => hit = <<bearings[bi], FirstNear(bearings[bi], max_km)>>
    /\ \A k \in 1..(Len(tested) - 1) :
          Distance(<<bearings[bi], k>>) > buffer_distance
    /\ \A i \in 1..Len(rows) :
          LET b == rows[i].Bearing
              f == FirstNear(b, max_km)
          IN  /\ \A k \in 1..Len(probes[i]) : probes[i][k] = k
              /\ Len(probes[i]) = IF f = 0 THEN max_km ELSE f
              /\ hits[i] = IF f = 0 THEN NoHit ELSE <<b, f>>
              /\ f # 0 => /\ rows[i].Fetch = GeoDist(<<b, f>>)
                          /\ trimmed_lines[b] = <<Origin, <<b, f>>>>

\* A hit at 2 km, exactly at the tolerance, with the point at 3 km within
\* the tolerance too and never tested.
C3_Witness ==
    /\ pc = "done"
    /\ max_km = 3
    /\ \E i \in 1..Len(rows) :
          /\ probes[i] = <<1, 2>>
          /\ hits[i] = <<rows[i].Bearing, 2>>
          /\ Distance(hits[i]) = buffer_distance
          /\ Distance(<<rows[i].Bearing, 3>>) <= buffer_distance

\* C4: a bearing with no point within the tolerance in 1..max_km gets the
\* fetch max_km exactly, no hit point, and as its line the max_km + 1
\* points for 0, 1, ..., max_km km in order, the first being the origin; a
\* bearing with a hit gets the two points origin and hit only.
C4_Exhaustion ==
    \A i \in 1..Len(rows) :
        LET b == rows[i].Bearing
            l == trimmed_lines[b]
        IN  IF \A k \in 1..max_km : Distance(<<b, k>>) > buffer_distance
            THEN /\ rows[i].Fetch = max_km * KmUnit
                 /\ hits[i] = NoHit
                 /\ Len(l) = max_km + 1
                 /\ l[1] = Origin
                 /\ \A k \in 1..max_km : l[k + 1] = <<b, k>>
            ELSE /\ hits[i] # NoHit
                 /\ l = <<Origin, hits[i]>>

\* A completed run at the largest radius with a bearing that found nothing
\* and a bearing that hit beyond the first kilometre.
C4_Witness ==
    /\ pc = "done"
    /\ max_km = MaxKm
    /\ \E i, j \in 1..Len(rows) :
          /\ hits[i] = NoHit
          /\ Len(trimmed_lines[rows[i].Bearing]) = MaxKm + 1
          /\ hits[j] # NoHit
          /\ hits[j][2] > 1

Scanned == {b \in 0..359 : b % bearing_step = 0}

\* C5: after the scan there is exactly one row for each bearing 0, s, 2s, ...
\* below 360 and for no other, in ascending order, and exactly one line for
\* each of those bearings, also when s does not divide 360.
C5_OnePerBearing ==
    pc \in {"plot", "fetch_table", "effective", "done"} =>
        /\ Len(rows) = Cardinality(Scanned)
        /\ \A i \in 1..Len(rows) : rows[i].Bearing = (i - 1) * bearing_step
        /\ \A i \in 1..Len(rows) : rows[i].Bearing \in Scanned
        /\ DOMAIN trimmed_lines = Scanned

\* A completed run whose step does not divide 360.
C5_Witness ==
    /\ pc = "done"
    /\ 360 % bearing_step # 0
    /\ Len(rows) > 1

\* The results of a run at the radius m1 and of a run at the larger radius
\* m2, everything else being the same.
Monotone(m1, rows1, hits1, m2, rows2, hits2) ==
    \A i \in 1..Len(rows1) :
        /\ rows2[i].Bearing = rows1[i].Bearing
        /\ rows2[i].Fetch >= rows1[i].Fetch
        /\ hits1[i] # NoHit =>
              /\ hits2[i] = hits1[i]
              /\ rows2[i].Fetch = rows1[i].Fetch
        /\ hits1[i] = NoHit =>
              \/ hits2[i] # NoHit /\ rows2[i].Fetch > rows1[i].Fetch
              \/ /\ hits2[i] = NoHit
                 /\ rows2[i].Fetch = m2 * KmUnit
                 /\ rows2[i].Fetch > rows1[i].Fetch

\* C6: with everything but max_km held fixed, a larger max_km never gives a
\* smaller fetch: a hit found at the smaller radius is returned unchanged,
\* with the same fetch, and a bearing without a hit at the smaller radius
\* gets a hit or a larger saturated value.
C6_Monotone ==
    (pc = "done" /\ prev # NoPrev) =>
        /\ Len(prev.rows) = Len(rows)
        /\ prev.max_km < max_km =>
              Monotone(prev.max_km, prev.rows, prev.hits, max_km, rows, hits)
        /\ max_km < prev.max_km =>
              Monotone(max_km, rows, hits, prev.max_km, prev.rows, prev.hits)

\* Two completed runs, the later at the larger radius: one bearing kept its
\* hit, one turned from no hit to a hit, one stayed without a hit.
C6_Witness ==
    /\ pc = "done"
    /\ prev # NoPrev
    /\ prev.max_km < max_km
    /\ \E i, j, k \in 1..Len(rows) :
          /\ prev.hits[i] # NoHit /\ hits[i] = prev.hits[i]
          /\ prev.hits[j] = NoHit /\ hits[j] # NoHit
          /\ prev.hits[k] = NoHit /\ hits[k] = NoHit

Directions(t) == [i \in 1..Len(t) |-> t[i].Direction]

\* C7: the aggregation gives exactly one entry for each sector that has a
\* record and none for a sector without records, in the order N, NE, E, SE,
\* S, SW, W, NW whatever the order of the records.
C7_CanonicalOrder ==
    pc = "done" =>
        /\ \A x \in {Canon[i] : i \in 1..8} :
              Cardinality({i \in 1..Len(df_eff) : df_eff[i].Direction = x})
                  = IF \E j \in 1..Len(rows) : Wedge(10 * rows[j].Bearing) = x
                    THEN 1 ELSE 0
        /\ \A i, j \in 1..Len(df_eff) :
              i < j => CanonIndex(df_eff[i].Direction) < CanonIndex(df_eff[j].Direction)

\* Records handed over out of order, W before E before N: three entries, in
\* the canonical order.
C7_Witness ==
    /\ pc = "done"
    /\ Directions(rows) = <<"W", "E", "N">>
    /\ Directions(df_eff) = <<"N", "E", "W">>

NRows == SelectSeq(rows, LAMBDA r : Wedge(10 * r.Bearing) = "N")

\* C8: the mean bearing of the N sector used for the weights lies inside
\* the N wedge, and every N record is less than 45 degrees away from it.
C8_CircularMean ==
    pc = "done" =>
        LET n == Len(NRows)
            sum == SumBearing(NRows)
        IN  n > 0 =>
              /\ 2 * MeanBearing(NRows).num >= 675 * MeanBearing(NRows).den
                 \/ 2 * MeanBearing(NRows).num < 45 * MeanBearing(NRows).den
              /\ \A i \in 1..n :
                    Abs(Offset(NRows[i].Bearing, NRows).num)
                        < 45 * Offset(NRows[i].Bearing, NRows).den

\* C9: a sector with a single record has that record's fetch as its
\* effective fetch, exactly; the scan 0, 90, 180, 270 gives the four entries
\* N, E, S, W, each with the fetch of its record.
C9_SingleRecord ==
    pc = "done" =>
        /\ \A j \in 1..Len(rows) :
              (\A k \in 1..Len(rows) :
                  Wedge(10 * rows[k].Bearing) = Wedge(10 * rows[j].Bearing) => k = j)
              => \E i \in 1..Len(df_eff) :
                    /\ df_eff[i].Direction = Wedge(10 * rows[j].Bearing)
                    /\ df_eff[i].Eff.den > 0
                    /\ df_eff[i].Eff.num = rows[j].Fetch * df_eff[i].Eff.den
        /\ [i \in 1..Len(rows) |-> rows[i].Bearing] = <<0, 90, 180, 270>>
              => /\ Directions(df_eff) = <<"N", "E", "S", "W">>
                 /\ \A i \in 1..4 :
                       df_eff[i].Eff.num = rows[i].Fetch * df_eff[i].Eff.den

\* The scan 0, 90, 180, 270 with fetches that differ.
C9_Witness ==
    /\ pc = "done"
    /\ [i \in 1..Len(rows) |-> rows[i].Bearing] = <<0, 90, 180, 270>>
    /\ rows[1].Fetch # rows[2].Fetch
    /\ Len(df_eff) = 4

\* C10: no result is on the page before the ray of every scanned bearing
\* has been cast, each result on the page covers every scanned bearing, and
\* a run that fails leaves no result.
C10_NoPartialOutput ==
    /\ pc \in {"idle", "scan", "ray", "plot", "failed"} => shown = <<>>
    /\ shown # <<>> =>
          /\ Len(rows) = Cardinality(Scanned)
          /\ \A i \in 1..Len(shown) : shown[i].of = Scanned

\* The plot is on the page, built from every scanned bearing.
C10_Witness ==
    /\ pc = "fetch_table"
    /\ Len(shown) = 1
    /\ shown[1].what = "plot"
    /\ shown[1].of = Scanned

====
